---- MODULE Spec2Model ----
(***************************************************************************)
(* Model of src/utils.py: the synthetic sequence generator                 *)
(* (generate_synthetic_sequences) and the two step functions               *)
(* (train_step_recurrent, valid_step_recurrent).                           *)
(*                                                                         *)
(* Real numbers are fixed-point integers in units of 1/One, so the signal  *)
(* value 1 is One and the end shift "+= 1" adds One.  The quotient of the  *)
(* normalisation pass is kept exact, as a fraction, or as the IEEE value   *)
(* numpy produces when the divisor is zero.                                *)
(***************************************************************************)
EXTENDS Integers, Sequences, FiniteSets, TLC

\* ---------------------------------------------------------------- bounds
MaxNumSequences == 2
MaxLength == 11
MaxNoisyDraws == 1
MaxSpread == 1
MaxBatch == 2
MaxSeqLen == 3
MaxWeight == 2
MaxUpdates == 2

\* ------------------------------------------------------ program constants
long_term_init_len == 3
long_term_end_len == 10
\* the value 1.0, and the default noise_level = 0.1, in fixed-point units
One == 100
default_noise_level == 10

VARIABLES
    \* generate_synthetic_sequences: parameters
    num_sequences, max_length, min_length, noise_level,
    \* generate_synthetic_sequences: locals
    sequences, labels, max_range, seq_length, sequence, long_term_signal,
    t, gen_i, norm_idx, noisy, gen_pc

genVars == <<num_sequences, max_length, min_length, noise_level, sequences,
             labels, max_range, seq_length, sequence, long_term_signal, t,
             gen_i, norm_idx, noisy, gen_pc>>

VARIABLES
    \* the collaborators handed to the step functions
    model_recurrent, model_head, optimizer,
    \* train_step_recurrent / valid_step_recurrent: which one runs, and where
    fn, step_pc,
    \* their parameters and locals
    seqs, labs, weight_gen, weight_class, sequence_length, idx, sequence_loss,
    x, y, y_hat, class_loss, total_loss, accuracy, ret,
    \* history: the collaborator calls made by the running call, in order,
    \* and the collaborators as they were when the call started
    calls, at_entry

stepVars == <<model_recurrent, model_head, optimizer, fn, step_pc, seqs, labs,
              weight_gen, weight_class, sequence_length, idx, sequence_loss,
              x, y, y_hat, class_loss, total_loss, accuracy, ret, calls,
              at_entry>>

vars == <<genVars, stepVars>>

\* ------------------------------------------------------------- arithmetic
Max2(a, b) == IF b > a THEN b ELSE a

\* ndarray.max() and ndarray.min() of a non-empty array
SeqMax(s) == CHOOSE m \in {s[j] : j \in 1..Len(s)} : \A j \in 1..Len(s) : s[j] <= m
SeqMin(s) == CHOOSE m \in {s[j] : j \in 1..Len(s)} : \A j \in 1..Len(s) : s[j] >= m

\* np.sin(t / 10) in units of 1/One, rounded to the nearest unit
SinTable == <<10, 20, 30, 39, 48, 56, 64, 72, 78, 84, 89, 93, 96, 99, 100, 100>>
Sin10(tt) == IF tt = 0 THEN 0 ELSE SinTable[tt]

\* np.random.normal(0, noise_level): the mean or one deviation either side
NormalDraws(level) == {0 - level, 0, level}

\* x * 0.8
Times08(v) == (v * 8) \div 10

\* faulty variant of NumpyDivide: a zero divisor is skipped, the value left as it is
GuardedDivide(v, d) ==
    IF d = 0 THEN [num |-> v, den |-> 1] ELSE [num |-> v, den |-> d]

\* numpy's float division x / d as the exact fraction num/den.  A zero
\* divisor raises nothing (numpy only warns): the quotient is nan for 0/0
\* and a signed infinity otherwise, written here with den = 0 and num the
\* sign (0 for nan).
Sign(v) == IF v = 0 THEN 0 ELSE IF v > 0 THEN 1 ELSE 0 - 1
NumpyDivide(v, d) ==
    IF d = 0 THEN [num |-> Sign(v), den |-> 0] ELSE [num |-> v, den |-> d]

\* faulty variant of Randint: the upper bound taken as inclusive
RandintInclusive(low, high) == low..high

\* np.random.randint(low, high): an integer in [low, high), high exclusive
Randint(low, high) == low..(high - 1)

\* sequence[-long_term_end_len:] += 1 ; a slice longer than the array is
\* clamped to the whole array
ShiftEnd(s) ==
    [j \in 1..Len(s) |-> IF j > Len(s) - long_term_end_len THEN s[j] + One ELSE s[j]]

\* ------------------------------------------------------------- generator
\* the values of max_length explored: around each threshold of the code
LengthChoices ==
    {0, 1, long_term_init_len, long_term_init_len + 1, MaxLength}

\* lines 18-24: the state on entry to the outer loop
GenLocalsInit ==
    /\ sequences = <<>>
    /\ labels = <<>>
    /\ max_range = 0
    /\ seq_length = 0
    /\ sequence = <<>>
    /\ long_term_signal = 0
    /\ t = 0
    /\ gen_i = 0
    /\ norm_idx = 0
    /\ noisy = 0

GenCalled ==
    /\ num_sequences \in 0..MaxNumSequences
    /\ max_length \in LengthChoices
    /\ min_length \in Max2(0, max_length - MaxSpread)..(max_length + 1)
    /\ noise_level \in {0, default_noise_level}
    /\ GenLocalsInit
    /\ gen_pc = "loop"

\* the generator is not running
GenNotCalled ==
    /\ num_sequences = 0
    /\ max_length = 0
    /\ min_length = 0
    /\ noise_level = 0
    /\ GenLocalsInit
    /\ gen_pc = "idle"

\* lines 26-32: next iteration of the outer loop; draw the length and signal
GenBeginSequence ==
    /\ UNCHANGED stepVars
    /\ gen_pc = "loop"
    /\ gen_i < num_sequences
    /\ IF min_length > max_length
       THEN \* np.random.randint(low, high) with low >= high raises ValueError
            /\ gen_pc' = "raised"
            /\ UNCHANGED <<seq_length, sequence, long_term_signal, t>>
       ELSE \E len \in Randint(min_length, max_length + 1), sig \in {0, 1} :
            /\ seq_length' = len
            /\ long_term_signal' = sig
            /\ sequence' = [j \in 1..len |->
                              IF j <= long_term_init_len THEN sig * One ELSE 0]
            /\ t' = long_term_init_len
            /\ gen_pc' = "ar"
    /\ UNCHANGED <<num_sequences, max_length, min_length, noise_level,
                   sequences, labels, max_range, gen_i, norm_idx, noisy>>

\* lines 35-37: one iteration of the autoregressive loop (0-based index t)
GenARStep ==
    /\ UNCHANGED stepVars
    /\ gen_pc = "ar"
    /\ t < seq_length
    /\ \E n \in NormalDraws(noise_level) :
         /\ (n # 0) => noisy < MaxNoisyDraws
         /\ noisy' = IF n # 0 THEN noisy + 1 ELSE noisy
         /\ sequence' = [sequence EXCEPT ![t + 1] = Times08(sequence[t]) + Sin10(t) + n]
    /\ t' = t + 1
    /\ UNCHANGED <<num_sequences, max_length, min_length, noise_level,
                   sequences, labels, max_range, seq_length, long_term_signal,
                   gen_i, norm_idx, gen_pc>>

\* lines 39-46: range bookkeeping, end shift, append
GenEndSequence ==
    /\ UNCHANGED stepVars
    /\ gen_pc = "ar"
    /\ t >= seq_length
    /\ IF seq_length = 0
       THEN \* max() of a zero-size array raises ValueError
            /\ gen_pc' = "raised"
            /\ UNCHANGED <<sequences, labels, max_range, gen_i>>
       ELSE /\ max_range' = Max2(max_range, SeqMax(sequence) - SeqMin(sequence))
            /\ sequences' = Append(sequences,
                                   IF long_term_signal = 1
                                   THEN ShiftEnd(sequence) ELSE sequence)
            /\ labels' = Append(labels, long_term_signal)
            /\ gen_i' = gen_i + 1
            /\ gen_pc' = "loop"
    /\ UNCHANGED <<num_sequences, max_length, min_length, noise_level,
                   seq_length, sequence, long_term_signal, t, norm_idx, noisy>>

\* line 26 -> 49: the outer loop is exhausted
GenLoopExit ==
    /\ UNCHANGED stepVars
    /\ gen_pc = "loop"
    /\ gen_i >= num_sequences
    /\ gen_pc' = "norm"
    /\ UNCHANGED <<num_sequences, max_length, min_length, noise_level,
                   sequences, labels, max_range, seq_length, sequence,
                   long_term_signal, t, gen_i, norm_idx, noisy>>

\* lines 49-50: sequences[idx] /= max_range
GenNormalizeStep ==
    /\ UNCHANGED stepVars
    /\ gen_pc = "norm"
    /\ norm_idx < Len(sequences)
    /\ sequences' = [sequences EXCEPT ![norm_idx + 1] =
                       [j \in 1..Len(@) |-> NumpyDivide(@[j], max_range)]]
    /\ norm_idx' = norm_idx + 1
    /\ UNCHANGED <<num_sequences, max_length, min_length, noise_level,
                   labels, max_range, seq_length, sequence, long_term_signal,
                   t, gen_i, noisy, gen_pc>>

\* line 52
GenReturn ==
    /\ UNCHANGED stepVars
    /\ gen_pc = "norm"
    /\ norm_idx >= Len(sequences)
    /\ gen_pc' = "returned"
    /\ UNCHANGED <<num_sequences, max_length, min_length, noise_level,
                   sequences, labels, max_range, seq_length, sequence,
                   long_term_signal, t, gen_i, norm_idx, noisy>>

NextGen ==
    \/ GenBeginSequence
    \/ GenARStep
    \/ GenEndSequence
    \/ GenLoopExit
    \/ GenNormalizeStep
    \/ GenReturn

\* ------------------------------------------------- step: tensor operations
RECURSIVE SumTo(_, _)
SumTo(f, n) == IF n = 0 THEN 0 ELSE f[n] + SumTo(f, n - 1)

Abs(v) == IF v < 0 THEN 0 - v ELSE v

\* seqs[:, j].reshape(-1, 1), for a 0-based column j: one value per row
Column(m, j) == [b \in 1..Len(m) |-> m[b][j + 1]]

\* row.argmax(-1): the 0-based index of the first largest entry
ArgMax(row) ==
    CHOOSE k \in 0..(Len(row) - 1) :
        /\ \A j \in 0..(Len(row) - 1) : row[j + 1] <= row[k + 1]
        /\ \A j \in 0..(k - 1) : row[j + 1] < row[k + 1]

\* row b of a tensor compared elementwise with a tensor of more rows: a
\* tensor of one row is broadcast
RowOf(v, b) == IF Len(v) = 1 THEN v[1] ELSE v[b]

\* faulty variant of Accuracy: the operands are those of the last pass of the
\* generation loop, not the head's output and the labels
AccuracyOfLastPass(yh, yy) ==
    LET IsPass(e) == e.op = "forward"
        passes == SelectSeq(calls, IsPass)
    IN  IF passes = <<>>
        THEN [num |-> 0, den |-> Len(yy)]
        ELSE LET e == passes[Len(passes)]
             IN  [num |-> Cardinality({b \in 1..Len(e.y) :
                                         ArgMax(e.y_hat[b]) = e.y[b]}),
                  den |-> Len(e.y)]

\* (y_hat.argmax(-1) == y).to(float).mean(), as the fraction num/den
Accuracy(yh, yy) ==
    [num |-> Cardinality({b \in 1..Len(yy) : ArgMax(RowOf(yh, b)) = yy[b]}),
     den |-> Len(yy)]

\* faulty variant of TotalLoss: the weights are dropped
TotalLossUnweighted(wg, gl, wc, cl) == gl + cl

\* total_loss = weight_gen * sequence_loss + weight_class * class_loss
TotalLoss(wg, gl, wc, cl) == wg * gl + wc * cl

\* ---------------------------------------------------- step: collaborators
\* The models, the criteria and the optimizer are supplied by the caller.
\* They are instantiated here by the simplest objects with the interface the
\* step functions use.  The hidden state is the list of the inputs absorbed
\* since the last reset, with a flag telling whether it is attached to an
\* autograd graph; params counts the updates a model has received.
NoTensor == <<>>
NoneState == [kind |-> "none", hist |-> <<>>, graph |-> FALSE]
InitialHidden == [kind |-> "tensor", hist |-> <<>>, graph |-> FALSE]

\* hidden_state.detach() if hidden_state is not None else None
Detach(hs) == IF hs.kind = "none" THEN hs ELSE [hs EXCEPT !.graph = FALSE]

\* model_recurrent.reset_hidden_state()
ResetHiddenState(m) == [m EXCEPT !.hidden_state = InitialHidden]

\* model_recurrent(x): the prediction, one row of one value per sequence
RecurrentOutput(m, xx) == [b \in 1..Len(xx) |-> <<xx[b] + m.params>>]

\* model_recurrent(x): the effect on the hidden state
RecurrentAbsorb(m, xx, grad) ==
    [m EXCEPT !.hidden_state =
        [kind |-> "tensor", hist |-> Append(@.hist, xx), graph |-> grad]]

\* model_head(x): two logits per row, from the last input the state absorbed
HeadOutput(m, hs) ==
    IF hs.hist = <<>>
    THEN << <<1, 0>> >>
    ELSE LET last == hs.hist[Len(hs.hist)]
         IN  [b \in 1..Len(last) |->
                IF (last[b] + m.params) % 2 = 1 THEN <<0, 1>> ELSE <<1, 0>>]

\* criterion_gen(y_hat, y): summed absolute error
CriterionGen(yh, yy) == SumTo([b \in 1..Len(yy) |-> Abs(yh[b][1] - yy[b])], Len(yy))

\* criterion_class(y_hat, y): number of misclassified rows
CriterionClass(yh, yy) ==
    Cardinality({b \in 1..Len(yy) : ArgMax(RowOf(yh, b)) # yy[b]})

\* one entry of the history of collaborator calls
Event(op, i, xx, yy, yh, l, h) ==
    [op |-> op, i |-> i, x |-> xx, y |-> yy, y_hat |-> yh, loss |-> l, h |-> h]
Plain(op) == Event(op, 0, NoTensor, NoTensor, NoTensor, 0, NoneState)

\* the batch explored for each shape: row b is a ramp starting at b - 1, so
\* the columns of a batch are pairwise different, and so are its rows
Batch(B, L) == [b \in 1..B |-> [j \in 1..L |-> (b - 1) + (j - 1)]]

\* ------------------------------------------------------------ step: actions
\* faulty variant of DetachAndReset: the reset is left out
DetachOnly(m) == [m EXCEPT !.hidden_state = Detach(@)]

\* lines 70-71 and 116-117: detach the carried state, then reset it
DetachAndReset(m) ==
    ResetHiddenState([m EXCEPT !.hidden_state = Detach(@)])

\* faulty variant of LoopInput: after the first pass the previous prediction is fed
FreeRunningInput(m, i) ==
    IF i = 0 THEN Column(m, 0) ELSE [b \in 1..Len(m) |-> y_hat[b][1]]

\* line 79 and 125: the input of pass i
LoopInput(m, i) == Column(m, i)

\* lines 65-75 (train: training = TRUE, with optimizer.zero_grad()) and
\* lines 113-121 (valid: training = FALSE, no optimizer)
EnterStep(f, training, zero_grad) ==
    /\ step_pc = "idle"
    /\ \E B \in 1..MaxBatch, L \in 1..MaxSeqLen :
         \E lab \in [1..B -> {0, 1}] :
            /\ seqs' = Batch(B, L)
            /\ labs' = lab
            /\ sequence_length' = Len(Batch(B, L)[1])
    /\ \E wg \in 0..MaxWeight, wc \in 0..MaxWeight :
         /\ weight_gen' = wg
         /\ weight_class' = wc
    /\ fn' = f
    /\ at_entry' = [model_recurrent |-> model_recurrent,
                    model_head |-> model_head, optimizer |-> optimizer]
    /\ model_recurrent' = DetachAndReset([model_recurrent EXCEPT !.training = training])
    /\ model_head' = [model_head EXCEPT !.training = training]
    /\ optimizer' = IF zero_grad THEN [optimizer EXCEPT !.grads = "zero"] ELSE optimizer
    /\ calls' = IF zero_grad THEN <<Plain("zero_grad")>> ELSE <<>>
    /\ sequence_loss' = 0
    /\ idx' = 0
    /\ x' = NoTensor
    /\ y' = NoTensor
    /\ y_hat' = NoTensor
    /\ class_loss' = 0
    /\ total_loss' = 0
    /\ accuracy' = [num |-> 0, den |-> 0]
    /\ ret' = <<>>
    /\ step_pc' = "loop"
    /\ UNCHANGED genVars

\* lines 78-84 and 124-130: one pass of the generation loop
ForwardPass(f, grad) ==
    /\ fn = f
    /\ step_pc = "loop"
    /\ idx < sequence_length - 1
    /\ x' = LoopInput(seqs, idx)
    /\ y' = Column(seqs, idx + 1)
    /\ y_hat' = RecurrentOutput(model_recurrent, x')
    /\ model_recurrent' = RecurrentAbsorb(model_recurrent, x', grad)
    /\ sequence_loss' = sequence_loss + CriterionGen(y_hat', y')
    /\ calls' = Append(calls, Event("forward", idx, x', y', y_hat',
                                    CriterionGen(y_hat', y'),
                                    model_recurrent.hidden_state))
    /\ idx' = idx + 1
    /\ UNCHANGED <<model_head, optimizer, fn, step_pc, seqs, labs, weight_gen,
                   weight_class, sequence_length, class_loss, total_loss,
                   accuracy, ret, at_entry>>
    /\ UNCHANGED genVars

\* lines 87-91 and 133-137: classify from the final hidden state, combine
ClassifyAndCombine(f, next_pc) ==
    /\ fn = f
    /\ step_pc = "loop"
    /\ idx >= sequence_length - 1
    /\ x' = model_recurrent.hidden_state
    /\ y' = labs
    /\ y_hat' = HeadOutput(model_head, x')
    /\ class_loss' = CriterionClass(y_hat', y')
    /\ total_loss' = TotalLoss(weight_gen, sequence_loss, weight_class, class_loss')
    /\ calls' = Append(calls, Event("head", idx, NoTensor, y', y_hat',
                                    class_loss', x'))
    /\ step_pc' = next_pc
    /\ UNCHANGED <<model_recurrent, model_head, optimizer, fn, seqs, labs,
                   weight_gen, weight_class, sequence_length, idx,
                   sequence_loss, accuracy, ret, at_entry>>
    /\ UNCHANGED genVars

\* lines 98-101 and 139-141: the accuracy, then the .item() of each loss.
\* With no pass made sequence_loss is still the int 0 of line 72 / 118, which
\* has no .item(): the return statement raises AttributeError.
ReturnStep(f) ==
    /\ fn = f
    /\ step_pc = "return"
    /\ accuracy' = Accuracy(y_hat, y)
    /\ IF sequence_length - 1 <= 0
       THEN /\ step_pc' = "raised"
            /\ ret' = <<>>
       ELSE /\ step_pc' = "returned"
            /\ ret' = [total_loss |-> total_loss, sequence_loss |-> sequence_loss,
                       class_loss |-> class_loss, accuracy |-> accuracy']
    /\ UNCHANGED <<model_recurrent, model_head, optimizer, fn, seqs, labs,
                   weight_gen, weight_class, sequence_length, idx,
                   sequence_loss, x, y, y_hat, class_loss, total_loss, calls,
                   at_entry>>
    /\ UNCHANGED genVars

\* train_step_recurrent, lines 65-75; a further update is started only while
\* the update counter is below its bound
TrainBegin ==
    /\ optimizer.steps < MaxUpdates
    /\ EnterStep("train", TRUE, TRUE)

\* train_step_recurrent, lines 78-84
TrainForward == ForwardPass("train", TRUE)

\* faulty variant of TrainHead: the backward pass is left out
TrainHeadNoBackward == ClassifyAndCombine("train", "optstep")

\* train_step_recurrent, lines 87-91
TrainHead == ClassifyAndCombine("train", "backward")

\* train_step_recurrent, line 94: total_loss.backward()
TrainBackward ==
    /\ step_pc = "backward"
    /\ optimizer' = [optimizer EXCEPT !.grads = "set"]
    /\ calls' = Append(calls, Plain("backward"))
    /\ step_pc' = "optstep"
    /\ UNCHANGED <<model_recurrent, model_head, fn, seqs, labs, weight_gen,
                   weight_class, sequence_length, idx, sequence_loss, x, y,
                   y_hat, class_loss, total_loss, accuracy, ret, at_entry>>
    /\ UNCHANGED genVars

\* train_step_recurrent, line 95: optimizer.step()
TrainOptimizerStep ==
    /\ step_pc = "optstep"
    /\ optimizer' = [optimizer EXCEPT !.steps = @ + 1]
    /\ model_recurrent' = [model_recurrent EXCEPT !.params = @ + 1]
    /\ model_head' = [model_head EXCEPT !.params = @ + 1]
    /\ calls' = Append(calls, Plain("step"))
    /\ step_pc' = "return"
    /\ UNCHANGED <<fn, seqs, labs, weight_gen, weight_class, sequence_length,
                   idx, sequence_loss, x, y, y_hat, class_loss, total_loss,
                   accuracy, ret, at_entry>>
    /\ UNCHANGED genVars

\* train_step_recurrent, lines 98-101
TrainReturn == ReturnStep("train")

\* valid_step_recurrent, lines 113-121
ValidBegin == EnterStep("valid", FALSE, FALSE)

\* valid_step_recurrent, lines 124-130, under torch.no_grad()
ValidForward == ForwardPass("valid", FALSE)

\* faulty variant of ValidHead: validation goes on to the backward pass and the
\* optimizer step
ValidHeadThenBackward == ClassifyAndCombine("valid", "backward")

\* valid_step_recurrent, lines 133-137
ValidHead == ClassifyAndCombine("valid", "return")

\* valid_step_recurrent, lines 139-141
ValidReturn == ReturnStep("valid")

\* no step function is running: its parameters and locals do not exist
NoFrame ==
    /\ fn = "none"
    /\ seqs = <<>>
    /\ labs = <<>>
    /\ weight_gen = 1
    /\ weight_class = 1
    /\ sequence_length = 0
    /\ idx = 0
    /\ sequence_loss = 0
    /\ x = NoTensor
    /\ y = NoTensor
    /\ y_hat = NoTensor
    /\ class_loss = 0
    /\ total_loss = 0
    /\ accuracy = [num |-> 0, den |-> 0]
    /\ ret = <<>>
    /\ calls = <<>>
    /\ at_entry = [model_recurrent |-> model_recurrent, model_head |-> model_head,
                   optimizer |-> optimizer]

\* lines 101 and 141, seen from the caller: the call is over (it returned or
\* raised), its frame is gone, the collaborators stay as the call left them
CallerResumes ==
    /\ step_pc \in {"returned", "raised"}
    /\ step_pc' = "idle"
    /\ UNCHANGED <<model_recurrent, model_head, optimizer>>
    /\ fn' = "none"
    /\ seqs' = <<>>
    /\ labs' = <<>>
    /\ weight_gen' = 1
    /\ weight_class' = 1
    /\ sequence_length' = 0
    /\ idx' = 0
    /\ sequence_loss' = 0
    /\ x' = NoTensor
    /\ y' = NoTensor
    /\ y_hat' = NoTensor
    /\ class_loss' = 0
    /\ total_loss' = 0
    /\ accuracy' = [num |-> 0, den |-> 0]
    /\ ret' = <<>>
    /\ calls' = <<>>
    /\ at_entry' = [model_recurrent |-> model_recurrent, model_head |-> model_head,
                    optimizer |-> optimizer]
    /\ UNCHANGED genVars

\* the collaborators as constructed
Constructed ==
    /\ model_recurrent = [training |-> TRUE, hidden_state |-> NoneState, params |-> 0]
    /\ model_head = [training |-> TRUE, params |-> 0]
    /\ optimizer = [grads |-> "none", steps |-> 0]

InitGen == GenCalled /\ Constructed /\ NoFrame /\ step_pc = "off"
InitStep == GenNotCalled /\ Constructed /\ NoFrame /\ step_pc = "idle"

NextStep ==
    \/ TrainBegin
    \/ TrainForward
    \/ TrainHead
    \/ TrainBackward
    \/ TrainOptimizerStep
    \/ TrainReturn
    \/ ValidBegin
    \/ ValidForward
    \/ ValidHead
    \/ ValidReturn
    \/ CallerResumes

\* calls of generate_synthetic_sequences
SpecGen == InitGen /\ [][NextGen]_vars

\* sequences of calls of train_step_recurrent and valid_step_recurrent on the
\* same collaborators
SpecStep == InitStep /\ [][NextStep]_vars

\* ============================================================ generator claims
IsFinite(v) == v.den # 0

\* largest entry - smallest entry <= 1 for a normalised sequence; any
\* comparison with nan is false, and inf - inf is nan
RangeAtMostOne(s) ==
    /\ \A j \in 1..Len(s) : IsFinite(s[j])
    /\ \A j, k \in 1..Len(s) : s[j].num - s[k].num <= s[j].den

BeforeNormalization == gen_pc = "norm" /\ norm_idx = 0

\* C3: a call with min_length <= max_length that returns gives exactly
\* num_sequences sequences and num_sequences labels, and every sequence has a
\* length between min_length and max_length, both inclusive.
C3_CountAndLengths ==
    (gen_pc = "returned" /\ min_length <= max_length) =>
        /\ Len(sequences) = num_sequences
        /\ Len(labels) = num_sequences
        /\ \A i \in 1..Len(sequences) :
             min_length <= Len(sequences[i]) /\ Len(sequences[i]) <= max_length

\* C3 witness: a returned corpus that holds a sequence of length min_length
\* and one of length max_length, the two being different
C3_Witness ==
    /\ gen_pc = "returned"
    /\ min_length < max_length
    /\ Len(sequences) = 2
    /\ Len(sequences[1]) = min_length
    /\ Len(sequences[2]) = max_length

\* C4 (as claimed): with min_length >= 3, just before the normalisation
\* division the entries at positions 0, 1 and 2 of every sequence equal each
\* other and the label of that sequence.
C4_FirstThreeEqualLabel ==
    (BeforeNormalization /\ min_length >= long_term_init_len) =>
        \A i \in 1..Len(sequences) :
            \A j \in 1..long_term_init_len : sequences[i][j] = labels[i] * One

\* C5 (as claimed): every returned sequence has largest entry - smallest
\* entry <= 1.
C5_RangeAtMostOne ==
    gen_pc = "returned" =>
        \A i \in 1..Len(sequences) : RangeAtMostOne(sequences[i])

\* C5 restricted to corpora whose divisor is not zero: the end shift alone,
\* applied after max_range was measured, already breaks the bound.
C5_RangeAtMostOneNonzeroDivisor ==
    (gen_pc = "returned" /\ max_range # 0) =>
        \A i \in 1..Len(sequences) : RangeAtMostOne(sequences[i])

\* C10 (as claimed): the function never returns a result when max_range is 0
\* at the start of the normalisation pass; the division by zero raises.
C10_ZeroRangeRaises ==
    ~(gen_pc = "returned" /\ max_range = 0)

\* C10 (amended): a zero max_range raises nothing.  Exceptions come only from
\* the generation loop, before the normalisation pass; a call that reaches
\* the pass with max_range = 0 returns all its sequences, and every entry of
\* every returned sequence is nan or an infinity (none, for an empty corpus).
C10_ZeroRangeIsSilent ==
    /\ gen_pc = "raised" => (gen_i < num_sequences /\ norm_idx = 0)
    /\ (gen_pc = "returned" /\ max_range = 0) =>
          /\ Len(sequences) = gen_i
          /\ \A i \in 1..Len(sequences) :
                \A j \in 1..Len(sequences[i]) : ~IsFinite(sequences[i][j])

\* C10 witness: a returned, non-empty, all-constant corpus divided by zero
C10_Witness ==
    /\ gen_pc = "returned"
    /\ max_range = 0
    /\ Len(sequences) = 2
    /\ sequences[1][1] = [num |-> 0, den |-> 0]
    /\ sequences[2][1] = [num |-> 1, den |-> 0]

\* ================================================================ step claims
Ops(c) == [k \in 1..Len(c) |-> c[k].op]
IsForward(e) == e.op = "forward"
IsHead(e) == e.op = "head"
Passes == SelectSeq(calls, IsForward)
Heads == SelectSeq(calls, IsHead)
CallOver == step_pc \in {"returned", "raised"}
Repeat(v, n) == [k \in 1..n |-> v]

\* the accuracy of the generation path: last per-step prediction against
\* the last next-value target
GenerationPathAccuracy ==
    LET e == Passes[Len(Passes)]
    IN  [num |-> Cardinality({b \in 1..Len(e.y) : ArgMax(e.y_hat[b]) = e.y[b]}),
         den |-> Len(e.y)]

\* the accuracy of the classification path: head output against the labels
ClassificationPathAccuracy ==
    LET e == Heads[1]
    IN  [num |-> Cardinality({b \in 1..Len(labs) :
                                ArgMax(RowOf(e.y_hat, b)) = labs[b]}),
         den |-> Len(labs)]

\* C1: in either step function the returned total loss is weight_gen times
\* the returned generation loss plus weight_class times the returned
\* classification loss, and the generation loss is the sum of the L-1
\* per-step criterion values of the call.
C1_TotalIsWeightedSum ==
    step_pc = "returned" =>
        /\ ret.total_loss =
              weight_gen * ret.sequence_loss + weight_class * ret.class_loss
        /\ Len(Passes) = sequence_length - 1
        /\ ret.sequence_loss = SumTo([k \in 1..Len(Passes) |-> Passes[k].loss],
                                     Len(Passes))
        /\ ret.class_loss = Heads[1].loss

\* C1 witness: a returned call with different weights and both losses nonzero
C1_Witness ==
    /\ step_pc = "returned"
    /\ fn = "train"
    /\ weight_gen # weight_class
    /\ ret.sequence_loss > 0
    /\ ret.class_loss > 0
    /\ Len(Passes) = 2

\* C2: no step of valid_step_recurrent changes a parameter of either model
\* or the optimizer, and the call runs no backward pass, no optimizer step
\* and no gradient zeroing.
C2_ValidChangesNoParameter ==
    [][fn' = "valid" =>
          /\ model_recurrent'.params = model_recurrent.params
          /\ model_head'.params = model_head.params
          /\ optimizer' = optimizer
          /\ \A k \in 1..Len(calls') :
                calls'[k].op \notin {"zero_grad", "backward", "step"}]_vars

\* C2 witness: a finished validation call on trained models, which changed
\* the mode flags and the hidden state and nothing else
C2_Witness ==
    /\ fn = "valid"
    /\ step_pc = "returned"
    /\ model_recurrent.params > 0
    /\ at_entry.model_recurrent.training /\ ~model_recurrent.training
    /\ at_entry.model_recurrent.hidden_state # model_recurrent.hidden_state
    /\ at_entry.model_recurrent.params = model_recurrent.params
    /\ at_entry.optimizer = optimizer

\* C6 (as claimed): the returned accuracy is that of the generation path.
C6_AccuracyFromGeneration ==
    step_pc = "returned" => ret.accuracy = GenerationPathAccuracy

\* C6 (amended): the returned accuracy is that of the classification path,
\* the fraction of rows where the arg-max of the head's output equals the
\* label.
C6_AccuracyFromClassification ==
    step_pc = "returned" => ret.accuracy = ClassificationPathAccuracy

\* C6 witness: a returned accuracy of one half, where the generation path
\* would have given another value
C6_Witness ==
    /\ step_pc = "returned"
    /\ ret.accuracy = [num |-> 1, den |-> 2]
    /\ ret.accuracy # GenerationPathAccuracy

\* C7: in train_step_recurrent the gradients are zeroed first, then come the
\* L-1 forward passes and the head, then one backward pass, then one
\* optimizer step, each once and in this order, all before the call ends.
TrainOrder(L) ==
    <<"zero_grad">> \o Repeat("forward", Max2(L - 1, 0))
                    \o <<"head", "backward", "step">>
C7_TrainOrder ==
    fn = "train" =>
        /\ Len(calls) <= Len(TrainOrder(sequence_length))
        /\ Ops(calls) = SubSeq(TrainOrder(sequence_length), 1, Len(calls))
        /\ CallOver => Ops(calls) = TrainOrder(sequence_length)
        /\ CallOver => optimizer.steps = at_entry.optimizer.steps + 1
        /\ optimizer.steps = at_entry.optimizer.steps
              + Cardinality({k \in 1..Len(calls) : calls[k].op = "step"})

\* C7 witness: a finished training call with two forward passes
C7_Witness ==
    /\ fn = "train"
    /\ step_pc = "returned"
    /\ Len(Passes) = 2
    /\ optimizer.grads = "set"

\* C8: a call makes its forward passes in the order idx = 0, 1, ..., exactly
\* L-1 of them once the loop is left; pass idx is fed ground-truth column
\* idx and compared with ground-truth column idx+1; the head reads a hidden
\* state that absorbed columns 0..L-2 and nothing else.
C8_TeacherForcing ==
    fn # "none" =>
        /\ \A k \in 1..Len(Passes) :
              /\ Passes[k].i = k - 1
              /\ k <= sequence_length - 1
              /\ Passes[k].x = Column(seqs, k - 1)
              /\ Passes[k].y = Column(seqs, k)
        /\ step_pc # "loop" =>
              /\ Len(Passes) = sequence_length - 1
              /\ Len(Heads) = 1
              /\ Heads[1].h.hist =
                    [k \in 1..(sequence_length - 1) |-> Column(seqs, k - 1)]

\* C8 witness: a finished validation call of two passes on two sequences
C8_Witness ==
    /\ fn = "valid"
    /\ step_pc = "returned"
    /\ Len(seqs) = 2
    /\ Len(Passes) = 2

\* C9: the first forward pass of every call consumes the freshly reset
\* hidden state, and the head of a call without passes reads it, whatever
\* an earlier call left behind.
C9_HiddenStateReset ==
    \A k \in 1..Len(calls) :
        /\ (calls[k].op = "forward" /\ calls[k].i = 0) => calls[k].h = InitialHidden
        /\ (calls[k].op = "head" /\ Len(Passes) = 0) => calls[k].h = InitialHidden

\* C9 witness: a call that found a state carried over from a training call,
\* still attached to that call's graph, and has made its first pass
C9_Witness ==
    /\ at_entry.model_recurrent.hidden_state.kind = "tensor"
    /\ at_entry.model_recurrent.hidden_state.hist # <<>>
    /\ at_entry.model_recurrent.hidden_state.graph
    /\ Len(Passes) >= 1
    /\ Passes[1].h = InitialHidden

====
